---------------------------- MODULE Spec2Model ----------------------------
(***************************************************************************)
(* Model of the payroll-receipt ingestion of systeso-backend:              *)
(* utils/zip_processor.py (procesar_zip and its helpers), the recibos and  *)
(* usuarios tables of backend/models.py and the roster import of           *)
(* backend/routers/excel_upload.py.                                        *)
(*                                                                         *)
(* Strings are sequences of string pieces (single characters for RFCs,     *)
(* tokens for periods and paths), so that upper-casing, stripping,         *)
(* replacing and concatenating are computed and not assumed.               *)
(***************************************************************************)
EXTENDS Integers, Sequences, FiniteSets, TLC

(* ------------------------------ bounds -------------------------------- *)
\* total number of procesar_zip invocations started in one behaviour
MaxRuns == 2

\* the workers that serve upload requests
Procs == {"w1", "w2"}

None == <<>>

(* --------------------------- string helpers --------------------------- *)
\* str.upper() on the characters the model uses
UpperChar(c) ==
    CASE c = "a" -> "A"
      [] c = "b" -> "B"
      [] c = "c" -> "C"
      [] c = "d" -> "D"
      [] c = "x" -> "X"
      [] c = "y" -> "Y"
      [] c = "ñ" -> "Ñ"
      [] OTHER -> c

Upper_AsIs(s) == s

Upper(s) == [i \in 1..Len(s) |-> UpperChar(s[i])]

\* the character class [A-Za-z0-9Ñ&] of normalize_rfc
RfcAlphabet ==
    {"A", "B", "C", "D", "X", "Y", "a", "b", "c", "d", "x", "y",
     "0", "1", "2", "9", "Ñ", "&"}

RECURSIVE Strip(_)
\* re.sub(r"[^A-Za-z0-9Ñ&]", "", s)
Strip(s) ==
    IF s = <<>> THEN <<>>
    ELSE IF s[1] \in RfcAlphabet THEN <<s[1]>> \o Strip(Tail(s))
    ELSE Strip(Tail(s))

\* normalize_rfc: None for an empty input or an empty result
normalize_rfc(s) == IF s = <<>> THEN None ELSE Strip(Upper(s))

\* str.replace(old, new) on a sequence of pieces
Replace(s, old, new) == [i \in 1..Len(s) |-> IF s[i] = old THEN new ELSE s[i]]

InSeq(x, s) == \E i \in 1..Len(s) : s[i] = x

RECURSIVE AppendNew(_, _)
\* for r in name_rfcs: if r not in rfcs: rfcs.append(r)
AppendNew(rfcs, more) ==
    IF more = <<>> THEN rfcs
    ELSE IF InSeq(more[1], rfcs) THEN AppendNew(rfcs, Tail(more))
    ELSE AppendNew(Append(rfcs, more[1]), Tail(more))

RECURSIVE DropNone(_)
\* [r for r in rfcs_norm if r]
DropNone(s) ==
    IF s = <<>> THEN <<>>
    ELSE IF s[1] = None THEN DropNone(Tail(s))
    ELSE <<s[1]>> \o DropNone(Tail(s))

(* ------------------------------ documents ----------------------------- *)
\* raw RFC tokens as RFC_RE.findall returns them (IGNORECASE: any case)
RfcAb1Lower == <<"a", "b", "1">>
RfcAb1 == <<"A", "B", "1">>
RfcCd2 == <<"C", "D", "2">>
RfcXy9 == <<"X", "Y", "9">>

\* the two groups of PER_RE, as matched
PerEneSlash == << <<"01", "/", "ene.", "/", "2025">>, <<"15", "/", "ene.", "/", "2025">> >>
PerEneDash == << <<"01", "-", "ene.", "-", "2025">>, <<"15", "-", "ene.", "-", "2025">> >>
PerFeb == << <<"01", "-", "feb", "-", "2025">>, <<"15", "-", "feb", "-", "2025">> >>

\* an extracted file: suffix, whether pdfplumber opens it, whether its text
\* is non-blank, the RFC tokens and period phrase of the text, and the RFC
\* tokens of its name; name_per is the pair of dates joined by "al" that
\* the name carries, if any
Doc(suffix, opens, hasText, txtRfcs, txtPer, nameRfcs) ==
    [suffix |-> suffix, opens |-> opens, hasText |-> hasText,
     txt_rfcs |-> txtRfcs, txt_per |-> txtPer, name_rfcs |-> nameRfcs,
     name_per |-> None]

\* the same file under a name of the form "<rfc> <date> al <date>.pdf"
Named(doc, per) == [doc EXCEPT !.name_per = per]

DocA == Doc(".pdf", TRUE, TRUE, <<RfcAb1Lower>>, PerEneSlash, <<>>)
DocA2 == Doc(".PDF", TRUE, TRUE, <<RfcXy9, RfcAb1>>, PerEneDash, <<RfcAb1, RfcCd2>>)
DocB == Doc(".pdf", TRUE, TRUE, <<>>, PerFeb, <<RfcCd2>>)
DocX == Doc(".pdf", TRUE, TRUE, <<RfcXy9>>, PerFeb, <<>>)
DocNoPer == Doc(".pdf", TRUE, TRUE, <<RfcXy9>>, None, <<>>)
DocScan == Named(Doc(".pdf", TRUE, FALSE, <<>>, None, <<RfcAb1>>), PerFeb)
DocBroken == Doc(".pdf", FALSE, FALSE, <<>>, None, <<RfcAb1>>)
DocAnon == Doc(".pdf", TRUE, TRUE, <<>>, PerFeb, <<>>)
Notes == Doc(".txt", FALSE, FALSE, <<>>, None, <<>>)
\* the copy of the upload that procesar_zip writes into the scratch area
LoteZip == Doc(".zip", FALSE, FALSE, <<>>, None, <<>>)

\* uploads: a well-formed container with its entries, or a corrupt one
Zip(entries) == [valid |-> TRUE, entries |-> entries, kind |-> "zip"]
BadZip == [valid |-> FALSE, entries |-> <<>>, kind |-> "zip"]
\* uploads that upload_zip turns away: no bytes, or bytes that are not a zip
EmptyUpload == [valid |-> FALSE, entries |-> <<>>, kind |-> "empty"]
NotZip == [valid |-> FALSE, entries |-> <<>>, kind |-> "other"]

Blobs ==
    { Zip(<<DocA>>),
      Zip(<<DocA2, DocB>>),
      Zip(<<DocX, DocNoPer, DocA>>),
      Zip(<<DocScan, Notes, DocBroken, DocAnon>>),
      BadZip }

\* what a client may post to upload_zip
Uploads == Blobs \cup {EmptyUpload, NotZip}

\* zipfile.is_zipfile(io.BytesIO(blob))
is_zipfile(blob) == blob.kind = "zip"

\* Path(tmpdir).rglob("*") restricted to files: lote.zip and the entries
Files(blob) == <<LoteZip>> \o blob.entries

SuffixLower_Exact(s) == s

\* pdf_file.suffix.lower()
SuffixLower(s) == IF s = ".PDF" THEN ".pdf" ELSE s

IsPdf(doc) == SuffixLower(doc.suffix) = ".pdf"

\* extraer_rfcs_y_periodo: <<rfcs, periodo>>
extraer_rfcs_y_periodo(doc) ==
    IF ~doc.opens THEN << <<>>, None >>
    ELSE
        LET rfcs == IF doc.hasText THEN doc.txt_rfcs ELSE <<>>
            periodo ==
                IF doc.hasText /\ doc.txt_per # None
                THEN Replace(doc.txt_per[1], "/", "-") \o <<"_al_">>
                         \o Replace(doc.txt_per[2], "/", "-")
                ELSE None
        IN << AppendNew(rfcs, doc.name_rfcs), periodo >>

\* rfcs_norm of procesar_zip
RfcsNorm(rfcs_raw) == DropNone([i \in 1..Len(rfcs_raw) |-> normalize_rfc(rfcs_raw[i])])


(* ------------------------------- storage ------------------------------ *)
Bucket == "recibos-bucket"
LocalRoot == "/srv/pdfs"

s3_key_NoClave(rfc, clave_emp, nombre_archivo) ==
    Upper(rfc) \o <<"/">> \o nombre_archivo

\* _s3_key: f"{str(rfc).upper()}/{clave_emp}/{nombre_archivo}"
s3_key(rfc, clave_emp, nombre_archivo) ==
    Upper(rfc) \o <<"/", clave_emp, "/">> \o nombre_archivo

\* dest_path of the filesystem branch: LOCAL_ROOT / str(clave_emp) / nombre
LocalPath(clave_emp, nombre_archivo) ==
    <<LocalRoot, "/", clave_emp, "/">> \o nombre_archivo

\* where _save_pdf_and_get_path puts the bytes: the object key or the path
SaveAddr(s3, rfc, clave_emp, nombre_archivo) ==
    IF s3 THEN s3_key(rfc, clave_emp, nombre_archivo)
    ELSE LocalPath(clave_emp, nombre_archivo)

\* the locator _save_pdf_and_get_path returns
save_pdf_and_get_path(s3, rfc, clave_emp, nombre_archivo) ==
    IF s3 THEN <<"s3://", Bucket, "/">> \o s3_key(rfc, clave_emp, nombre_archivo)
    ELSE LocalPath(clave_emp, nombre_archivo)

\* what the existence check of a found record looks at: the recomputed key
\* under S3, the record's own ruta_archivo on the filesystem
CheckAddr(s3, row, rfc, clave_emp, nombre_archivo) ==
    IF s3 THEN s3_key(rfc, clave_emp, nombre_archivo) ELSE row.ruta_archivo

\* the answers _s3_exists can give for a key: True, False (404) or an error
HeadAnswers(store, addr) ==
    IF addr \in store THEN {"True", "ClientError"} ELSE {"False", "ClientError"}

\* missing: not _s3_exists(...), True on any exception; not Path.exists()
Missing_Always(s3, head, store, addr) == TRUE

Missing(s3, head, store, addr) ==
    IF s3 THEN head # "True" ELSE addr \notin store

(* ------------------------------ the tables ---------------------------- *)
\* usuarios rows the roster import may add (rfc as typed in the spreadsheet)
RosterRows ==
    << [rfc |-> <<"a", "b", "-", "1">>, clave |-> "10"] >>

\* usuarios rows present from the start
RfcAdmin == <<"A", "D", "9">>

InitialUsuarios ==
    << [rfc |-> <<"A", "B", " ", "1">>, clave |-> "11"],
       [rfc |-> RfcCd2, clave |-> "20"],
       [rfc |-> RfcAdmin, clave |-> "9999"] >>

Max(S) == CHOOSE x \in S : \A y \in S : y <= x

\* user_map of procesar_zip: normalized rfc -> clave, later rows overwrite
BuildUserMap(rows) ==
    LET keys == {normalize_rfc(rows[i].rfc) : i \in 1..Len(rows)} \ {None}
    IN  [k \in keys |->
            rows[Max({i \in 1..Len(rows) : normalize_rfc(rows[i].rfc) = k})].clave]

\* next((r for r in rfcs_norm if r in user_map), None)
RECURSIVE FirstMatch(_, _)
FirstMatch_Last(rfcs_norm, user_map) ==
    LET known == {k \in 1..Len(rfcs_norm) : rfcs_norm[k] \in DOMAIN user_map}
    IN  IF known = {} THEN None
        ELSE rfcs_norm[CHOOSE k \in known : \A j \in known : j <= k]

FirstMatch(rfcs_norm, user_map) ==
    IF rfcs_norm = <<>> THEN None
    ELSE IF rfcs_norm[1] \in DOMAIN user_map THEN rfcs_norm[1]
    ELSE FirstMatch(Tail(rfcs_norm), user_map)

\* nombre_archivo = f"{rfc_guardar}_{periodo}.pdf"
NombreArchivo_NoRfc(rfc_guardar, periodo) == periodo \o <<".pdf">>

NombreArchivo(rfc_guardar, periodo) == rfc_guardar \o <<"_">> \o periodo \o <<".pdf">>

\* periodo_bd = periodo.replace("_al_", " al ")
PeriodoBd(periodo) == Replace(periodo, "_al_", " al ")

\* the dedup key of a recibos row
KeyOf(row) == <<row.clave_empleado, row.rfc, row.periodo, row.nombre_archivo>>

FindRecibo_FilePeriodo(rows, clave_emp, rfc, periodo_bd, nombre_archivo) ==
    {i \in 1..Len(rows) :
        /\ rows[i].clave_empleado = clave_emp
        /\ rows[i].rfc = rfc
        /\ rows[i].periodo = Replace(periodo_bd, " al ", "_al_")
        /\ rows[i].nombre_archivo = nombre_archivo}

\* the rows the query of procesar_zip matches
FindRecibo(rows, clave_emp, rfc, periodo_bd, nombre_archivo) ==
    {i \in 1..Len(rows) :
        KeyOf(rows[i]) = <<clave_emp, rfc, periodo_bd, nombre_archivo>>}

(* ------------------------------- state -------------------------------- *)
(* ------------------------- accounts and tokens ------------------------ *)
\* clock ticks a token lives (ACCESS_TOKEN_EXPIRE_MINUTES) and the last tick
TTL == 1
MaxClock == 2

\* the usuarios rows that sign in: the administrator and one employee
Accounts == {"admin", "emp"}

AdminEmail == "admin@zapata.gob.mx"
EmpEmail == "emp@zapata.gob.mx"

\* no token at all (None, ""), and a string that is not a token of this server
NoToken == [sub |-> "", rol |-> "", exp |-> 0]
Garbage == [sub |-> "PRUEBA123", rol |-> "", exp |-> 0]

\* create_access_token: the claims sub, rol and exp, signed with SECRET_KEY
create_access_token(sub, rol, now) == [sub |-> sub, rol |-> rol, exp |-> now + TTL]

\* jwt.decode: JWTError for a foreign string, ExpiredSignatureError past exp
Decode(tok, now) ==
    IF tok = Garbage \/ tok = NoToken THEN "JWTError"
    ELSE IF tok.exp < now THEN "ExpiredSignatureError"
    ELSE "ok"

\* bcrypt.hash and bcrypt.verify
hash_password(password) == <<"bcrypt", password>>
verify(password, password_hash) == password_hash = hash_password(password)

\* db.query(Usuario).filter(Usuario.email == email).first(); "" when none
ByEmail(cs, email) ==
    IF email # "" /\ \E a \in Accounts : cs[a].email = email
    THEN CHOOSE a \in Accounts : cs[a].email = email
    ELSE ""

\* get_current_user: the account the token names, "" for a 401
get_current_user(cs, tok, now) ==
    IF Decode(tok, now) # "ok" THEN "" ELSE ByEmail(cs, tok.sub)

require_admin_Anyone(cs, who) == TRUE

\* require_admin: current_user.rol == "admin"
require_admin(cs, who) == cs[who].rol = "admin"

\* Usuario.rfc.ilike(pattern): case-insensitive, "%" matches anything
ILike(value, pattern) == pattern = <<"%">> \/ Upper(value) = Upper(pattern)

\* the administrator row created at start-up
AdminCuenta ==
    [rfc |-> RfcAdmin, clave |-> "9999", rol |-> "admin", email |-> AdminEmail,
     password_hash |-> hash_password("admin123"), is_verified |-> 1,
     reset_token |-> NoToken]

\* an employee row as cargar_excel leaves it: no email, no password
Unregistered(rfc, clave) ==
    [rfc |-> rfc, clave |-> clave, rol |-> "usuario", email |-> "",
     password_hash |-> <<>>, is_verified |-> 0, reset_token |-> NoToken]

\* the same row after register and verificar_email
Registered(rfc, clave) ==
    [Unregistered(rfc, clave) EXCEPT !.email = EmpEmail,
                                     !.password_hash = hash_password("p1"),
                                     !.is_verified = 1]

\* no request answered yet
NoResp ==
    [op |-> "", status |-> 0, user |-> "", tok |-> NoToken, id |-> 0, rows |-> {}]

Resp(op, status, user) == [NoResp EXCEPT !.op = op, !.status = status, !.user = user]

\* no reset link issued yet
NoLog == [a \in Accounts |-> [tok |-> NoToken, spent |-> FALSE]]

VARIABLES
    use_s3,     \* USE_S3, fixed when the process starts
    usuarios,   \* the usuarios table, in row order
    recibos,    \* the recibos table, in id order (id = position)
    storage,    \* the object keys or file paths that hold bytes
    call,       \* the procesar_zip invocations, one per worker
    nruns,      \* invocations started so far
    last,       \* the last invocation that ended, for replay claims
    cuentas,    \* the login columns of the usuarios rows that sign in
    clock,      \* datetime.utcnow(), in ticks
    wire,       \* the tokens handed out, in responses and in mailed links
    resp,       \* the answer to the last request of the users and receipts routes
    reset_log,  \* per account, the last reset link issued and whether it was used
    norm        \* normalize_rfc called on its own: argument, results, employee

vars ==
    <<use_s3, usuarios, recibos, storage, call, nruns, last,
      cuentas, clock, wire, resp, reset_log, norm>>

\* the state of ingestion and the state of the accounts
ingvars == <<use_s3, usuarios, recibos, storage, call, nruns, last>>
webvars == <<cuentas, clock, wire, resp, reset_log>>

ZeroStats ==
    [nuevos |-> 0, ya_existian |-> 0, reparados |-> 0,
     sin_usuario |-> 0, omitidos |-> 0, total_pdfs |-> 0]

NoCur ==
    [clave_emp |-> "", rfc_guardar |-> None, periodo_bd |-> None,
     nombre_archivo |-> None, existe |-> 0, head |-> "", ruta |-> None]

Idle ==
    [pc |-> "idle", blob |-> BadZip, tmpdir |-> FALSE, db |-> FALSE,
     user_map |-> <<>>, idx |-> 0, stats |-> ZeroStats, cur |-> NoCur,
     outs |-> <<>>, fault |-> "", replay |-> FALSE, quiet |-> FALSE,
     user |-> ""]

NoLast == [blob |-> BadZip, ok |-> FALSE, intact |-> FALSE]

NoNorm == [pc |-> "idle", arg |-> <<>>, out |-> None, again |-> None, clave |-> ""]

Init ==
    /\ use_s3 \in BOOLEAN
    /\ usuarios = InitialUsuarios
    /\ recibos = <<>>
    /\ storage = {}
    /\ call = [p \in Procs |-> Idle]
    /\ nruns = 0
    /\ last = NoLast
    /\ cuentas = [admin |-> AdminCuenta, emp |-> Registered(RfcCd2, "20")]
    /\ clock = 0
    /\ wire = {create_access_token(AdminEmail, "admin", 0),
               create_access_token(EmpEmail, "usuario", 0)}
    /\ resp = NoResp
    /\ reset_log = NoLog
    /\ norm = NoNorm

\* the request has its answer: procesar_zip returned or raised, or upload_zip
\* turned the request away
Ended(c) == c.pc \in {"done", "fatal", "rejected"}


(* ----------------------- leaving procesar_zip ------------------------- *)
Raise_KeepsScratch(c, fault) ==
    [c EXCEPT !.pc = "fatal", !.fault = fault, !.db = FALSE, !.cur = NoCur]

\* an exception leaving the function: finally db.close(), then the
\* TemporaryDirectory context removes the scratch area
Raise(c, fault) ==
    [c EXCEPT !.pc = "fatal", !.fault = fault, !.db = FALSE,
              !.tmpdir = FALSE, !.cur = NoCur]

\* the normal return: the same finally and context exit, then return stats
Return(c) == [c EXCEPT !.pc = "done", !.db = FALSE, !.tmpdir = FALSE]

WellFormed_Unchecked(blob) == TRUE

\* zipfile.ZipFile(zpath) accepts the container
WellFormed(blob) == blob.valid

CountSinUsuario_AsOmitido(stats) ==
    [stats EXCEPT !.omitidos = @ + 1, !.total_pdfs = @ + 1]

\* stats["total_pdfs"] += 1 ... stats["sin_usuario"] += 1
CountSinUsuario(stats) ==
    [stats EXCEPT !.sin_usuario = @ + 1, !.total_pdfs = @ + 1]

\* stats["total_pdfs"] += 1 ... stats["omitidos"] += 1
CountOmitido_TotalOnly(stats) == [stats EXCEPT !.total_pdfs = @ + 1]

CountOmitido(stats) ==
    [stats EXCEPT !.omitidos = @ + 1, !.total_pdfs = @ + 1]

RepairRow_Inserts(rows, i, ruta) ==
    Append(rows, [rows[i] EXCEPT !.ruta_archivo = ruta])

\* existe.ruta_archivo = nueva_ruta; db.commit()
RepairRow_Restamps(rows, i, ruta) ==
    [rows EXCEPT ![i].ruta_archivo = ruta, ![i].fecha_subida = @ + 1]

RepairRow(rows, i, ruta) == [rows EXCEPT ![i].ruta_archivo = ruta]

\* rec = Recibo(...); db.add(rec); db.commit()
InsertRow_NoLocator(rows, cur, ruta, now) ==
    Append(rows,
        [clave_empleado |-> cur.clave_emp, rfc |-> cur.rfc_guardar,
         periodo |-> cur.periodo_bd, nombre_archivo |-> cur.nombre_archivo,
         ruta_archivo |-> None, fecha_subida |-> now])

InsertRow(rows, cur, ruta, now) ==
    Append(rows,
        [clave_empleado |-> cur.clave_emp, rfc |-> cur.rfc_guardar,
         periodo |-> cur.periodo_bd, nombre_archivo |-> cur.nombre_archivo,
         ruta_archivo |-> ruta, fecha_subida |-> now])

\* the file the loop is at, and what the extractor and resolver make of it
CurFile(c) == Files(c.blob)[c.idx]
RfcsNormOf(doc) == RfcsNorm(extraer_rfcs_y_periodo(doc)[1])
PeriodoOf(doc) == extraer_rfcs_y_periodo(doc)[2]
Omitted_IgnoresPeriodo(doc) == RfcsNormOf(doc) = <<>>

\* if not rfcs_norm or not periodo
Omitted(doc) == RfcsNormOf(doc) = <<>> \/ PeriodoOf(doc) = None

AtFile(c) == c.pc = "loop" /\ c.idx <= Len(Files(c.blob))

SnapshotMap_Live(c) == BuildUserMap(usuarios)

\* the directory a call resolves against: its own user_map
SnapshotMap(c) == c.user_map

Step(c, out) == [c EXCEPT !.idx = @ + 1, !.outs = Append(@, out), !.cur = NoCur]

(* ------------------------------ actions ------------------------------- *)
\* procesar_zip(blob) is called: the scratch area is made, lote.zip written
Begin(p, blob, who) ==
    /\ call[p].pc = "idle"
    /\ nruns < MaxRuns
    /\ nruns' = nruns + 1
    /\ call' = [call EXCEPT ![p] =
                    [Idle EXCEPT !.pc = "extract", !.blob = blob, !.tmpdir = TRUE,
                                 !.user = who,
                                 !.quiet = TRUE,
                                 !.replay = last.ok /\ last.intact /\ last.blob = blob]]
    /\ UNCHANGED <<use_s3, usuarios, recibos, storage, last>>
    /\ UNCHANGED <<webvars, norm>>

\* with zipfile.ZipFile(zpath) as z: z.extractall(tmpdir); db = SessionLocal()
Extract(p) ==
    /\ call[p].pc = "extract"
    /\ IF WellFormed(call[p].blob)
       THEN /\ call' = [call EXCEPT ![p].pc = "snapshot", ![p].db = TRUE]
            /\ UNCHANGED last
       ELSE /\ call' = [call EXCEPT ![p] = Raise(@, "BadZipFile")]
            /\ last' = [blob |-> call[p].blob, ok |-> FALSE, intact |-> TRUE]
    /\ UNCHANGED <<use_s3, usuarios, recibos, storage, nruns>>
    /\ UNCHANGED <<webvars, norm>>

\* usuarios = db.execute(select(Usuario.clave, Usuario.rfc)).all(); user_map
Snapshot(p) ==
    /\ call[p].pc = "snapshot"
    /\ call' = [call EXCEPT ![p].pc = "loop", ![p].idx = 1,
                            ![p].user_map = BuildUserMap(usuarios)]
    /\ UNCHANGED <<use_s3, usuarios, recibos, storage, nruns, last>>
    /\ UNCHANGED <<webvars, norm>>

\* a file that is not a .pdf: continue
Skip(p) ==
    /\ AtFile(call[p])
    /\ ~IsPdf(CurFile(call[p]))
    /\ call' = [call EXCEPT ![p] = Step(@, "SKIP")]
    /\ UNCHANGED <<use_s3, usuarios, recibos, storage, nruns, last>>
    /\ UNCHANGED <<webvars, norm>>

\* no RFC or no period: omitidos
Omitido(p) ==
    /\ AtFile(call[p])
    /\ IsPdf(CurFile(call[p]))
    /\ Omitted(CurFile(call[p]))
    /\ call' = [call EXCEPT ![p] = [Step(@, "OMITIDO") EXCEPT !.stats = CountOmitido(@)]]
    /\ UNCHANGED <<use_s3, usuarios, recibos, storage, nruns, last>>
    /\ UNCHANGED <<webvars, norm>>

\* no candidate RFC is in user_map: sin_usuario
SinUsuario(p) ==
    /\ AtFile(call[p])
    /\ IsPdf(CurFile(call[p]))
    /\ ~Omitted(CurFile(call[p]))
    /\ FirstMatch(RfcsNormOf(CurFile(call[p])), SnapshotMap(call[p])) = None
    /\ call' = [call EXCEPT ![p] =
                    [Step(@, "SIN_USUARIO") EXCEPT !.stats = CountSinUsuario(@)]]
    /\ UNCHANGED <<use_s3, usuarios, recibos, storage, nruns, last>>
    /\ UNCHANGED <<webvars, norm>>

\* the document resolves: compute its key and query recibos for it
Lookup(p) ==
    /\ AtFile(call[p])
    /\ IsPdf(CurFile(call[p]))
    /\ ~Omitted(CurFile(call[p]))
    /\ LET c == call[p]
           umap == SnapshotMap(c)
           rfc == FirstMatch(RfcsNormOf(CurFile(c)), umap)
           periodo == PeriodoOf(CurFile(c))
       IN  /\ rfc # None
           /\ LET clave == umap[rfc]
                  nombre == NombreArchivo(rfc, periodo)
                  found == FindRecibo(recibos, clave, rfc, PeriodoBd(periodo), nombre)
              IN  \E i \in (IF found = {} THEN {0} ELSE found) :
                    call' = [call EXCEPT
                        ![p].stats.total_pdfs = @ + 1,
                        ![p].pc = IF i = 0 THEN "save_new" ELSE "head",
                        ![p].cur = [NoCur EXCEPT !.clave_emp = clave,
                                       !.rfc_guardar = rfc,
                                       !.periodo_bd = PeriodoBd(periodo),
                                       !.nombre_archivo = nombre,
                                       !.existe = i]]
    /\ UNCHANGED <<use_s3, usuarios, recibos, storage, nruns, last>>
    /\ UNCHANGED <<webvars, norm>>

\* if existe: is the blob missing?
HeadCheck(p) ==
    /\ call[p].pc = "head"
    /\ LET c == call[p]
           cu == c.cur
           addr == CheckAddr(use_s3, recibos[cu.existe], cu.rfc_guardar,
                             cu.clave_emp, cu.nombre_archivo)
       IN  \E h \in (IF use_s3 THEN HeadAnswers(storage, addr) ELSE {"exists"}) :
             IF Missing(use_s3, h, storage, addr)
             THEN call' = [call EXCEPT ![p].pc = "save_rep", ![p].cur.head = h]
             ELSE call' = [call EXCEPT ![p] =
                     [Step(@, "YA_EXISTE") EXCEPT !.pc = "loop",
                                                  !.stats.ya_existian = @ + 1]]
    /\ UNCHANGED <<use_s3, usuarios, recibos, storage, nruns, last>>
    /\ UNCHANGED <<webvars, norm>>

\* _save_pdf_and_get_path: the upload or write succeeds, or raises
Save(p, from, to) ==
    /\ call[p].pc = from
    /\ LET cu == call[p].cur IN
       \E ok \in BOOLEAN :
         IF ok
         THEN /\ storage' = storage \cup
                    {SaveAddr(use_s3, cu.rfc_guardar, cu.clave_emp, cu.nombre_archivo)}
              /\ call' = [call EXCEPT ![p].pc = to,
                            ![p].cur.ruta = save_pdf_and_get_path(use_s3,
                                cu.rfc_guardar, cu.clave_emp, cu.nombre_archivo)]
              /\ UNCHANGED last
         ELSE /\ storage' = storage
              /\ call' = [call EXCEPT ![p] = Raise(@, "upload")]
              /\ last' = [blob |-> call[p].blob, ok |-> FALSE, intact |-> TRUE]
    /\ UNCHANGED <<use_s3, usuarios, recibos, nruns>>
    /\ UNCHANGED <<webvars, norm>>

SaveRepair(p) == Save(p, "save_rep", "commit_rep")

SaveNew(p) == Save(p, "save_new", "commit_new")

\* existe.ruta_archivo = nueva_ruta; db.commit(); stats["reparados"] += 1
CommitRepair(p) ==
    /\ call[p].pc = "commit_rep"
    /\ \E ok \in BOOLEAN :
         IF ok
         THEN /\ recibos' = RepairRow(recibos, call[p].cur.existe, call[p].cur.ruta)
              /\ call' = [call EXCEPT ![p] =
                     [Step(@, "REPARADO") EXCEPT !.pc = "loop",
                                                 !.stats.reparados = @ + 1]]
              /\ UNCHANGED last
         ELSE /\ recibos' = recibos
              /\ call' = [call EXCEPT ![p] = Raise(@, "ledger")]
              /\ last' = [blob |-> call[p].blob, ok |-> FALSE, intact |-> TRUE]
    /\ UNCHANGED <<use_s3, usuarios, storage, nruns>>
    /\ UNCHANGED <<webvars, norm>>

\* db.add(rec); db.commit(); stats["nuevos"] += 1
CommitNew(p) ==
    /\ call[p].pc = "commit_new"
    /\ \E ok \in BOOLEAN :
         IF ok
         THEN /\ recibos' = InsertRow(recibos, call[p].cur, call[p].cur.ruta, nruns)
              /\ call' = [call EXCEPT ![p] =
                     [Step(@, "NUEVO") EXCEPT !.pc = "loop", !.stats.nuevos = @ + 1]]
              /\ UNCHANGED last
         ELSE /\ recibos' = recibos
              /\ call' = [call EXCEPT ![p] = Raise(@, "ledger")]
              /\ last' = [blob |-> call[p].blob, ok |-> FALSE, intact |-> TRUE]
    /\ UNCHANGED <<use_s3, usuarios, storage, nruns>>
    /\ UNCHANGED <<webvars, norm>>

\* the loop is exhausted: finally, context exit, return stats
Finish(p) ==
    /\ call[p].pc = "loop"
    /\ call[p].idx > Len(Files(call[p].blob))
    /\ call' = [call EXCEPT ![p] = Return(@)]
    /\ last' = [blob |-> call[p].blob, ok |-> TRUE, intact |-> call[p].quiet]
    /\ UNCHANGED <<use_s3, usuarios, recibos, storage, nruns>>
    /\ UNCHANGED <<webvars, norm>>

\* upload_zip answers the request (the summary, or the 500 of a failure)
Respond(p) ==
    /\ Ended(call[p])
    /\ call' = [call EXCEPT ![p] = Idle]
    /\ UNCHANGED <<use_s3, usuarios, recibos, storage, nruns, last>>
    /\ UNCHANGED <<webvars, norm>>

\* the store or the directory changed under the calls in progress
Disturbed ==
    [p \in Procs |-> IF call[p].pc = "idle" THEN call[p]
                     ELSE [call[p] EXCEPT !.quiet = FALSE]]

\* a stored artifact disappears out of band
DeleteArtifact(addr) ==
    /\ addr \in storage
    /\ storage' = storage \ {addr}
    /\ call' = Disturbed
    /\ last' = [last EXCEPT !.intact = FALSE]
    /\ UNCHANGED <<use_s3, usuarios, recibos, nruns>>
    /\ UNCHANGED <<webvars, norm>>

\* cargar_excel inserts the spreadsheet rows whose rfc is not in usuarios
cargar_excel(i) ==
    /\ ~InSeq(RosterRows[i].rfc, [j \in 1..Len(usuarios) |-> usuarios[j].rfc])
    /\ usuarios' = Append(usuarios, RosterRows[i])
    /\ call' = Disturbed
    /\ last' = [last EXCEPT !.intact = FALSE]
    /\ UNCHANGED <<use_s3, recibos, storage, nruns>>
    /\ UNCHANGED <<webvars, norm>>

\* upload_zip turns the request away with an HTTPException
Reject(p, who, status) ==
    /\ call[p].pc = "idle"
    /\ call' = [call EXCEPT ![p] =
                    [Idle EXCEPT !.pc = "rejected", !.fault = status, !.user = who]]
    /\ UNCHANGED <<use_s3, usuarios, recibos, storage, nruns, last>>
    /\ UNCHANGED <<webvars, norm>>

\* upload_zip: require_admin, the checks on the bytes, then procesar_zip(blob)
upload_zip(p, tok, blob) ==
    LET who == get_current_user(cuentas, tok, clock) IN
    IF who = "" THEN Reject(p, "", "401")
    ELSE IF ~require_admin(cuentas, who) THEN Reject(p, who, "403")
    ELSE IF blob.kind = "empty" \/ ~is_zipfile(blob) THEN Reject(p, who, "400")
    ELSE Begin(p, blob, who)

Work(p) ==
    \/ Extract(p) \/ Snapshot(p) \/ Skip(p) \/ Omitido(p) \/ SinUsuario(p)
    \/ Lookup(p) \/ HeadCheck(p) \/ SaveRepair(p) \/ CommitRepair(p)
    \/ SaveNew(p) \/ CommitNew(p) \/ Finish(p) \/ Respond(p)

Env ==
    \/ \E addr \in storage : DeleteArtifact(addr)
    \/ \E i \in 1..Len(RosterRows) : cargar_excel(i)

\* concurrent uploads: any worker may start while another is running
Next ==
    \/ \E p \in Procs, tok \in wire \cup {Garbage}, blob \in Uploads :
          upload_zip(p, tok, blob)
    \/ \E p \in Procs : Work(p)
    \/ Env

Spec == Init /\ [][Next]_vars

\* one upload at a time: a call starts only when no other is in progress
BeginSeq(p, tok, blob) ==
    (\A q \in Procs : call[q].pc = "idle") /\ upload_zip(p, tok, blob)

NextSeq ==
    \/ \E p \in Procs, tok \in wire \cup {Garbage}, blob \in Uploads :
          BeginSeq(p, tok, blob)
    \/ \E p \in Procs : Work(p)
    \/ Env

SpecSeq == Init /\ [][NextSeq]_vars

(* ------------------- the users and the receipts routes ---------------- *)
\* list_recibos: the records whose rfc is the rfc of the authenticated user
list_recibos(rows, user_rfc) == {i \in 1..Len(rows) : rows[i].rfc = user_rfc}

\* where the artifact of a record is, read from its locator
LocatorAddr(row) ==
    IF use_s3 THEN SubSeq(row.ruta_archivo, 4, Len(row.ruta_archivo))
    ELSE row.ruta_archivo

\* a recibos row as procesar_zip writes it for a resolved document
RowOf(s3, clave, rfc, doc, now) ==
    LET nombre == NombreArchivo(rfc, PeriodoOf(doc))
    IN  [clave_empleado |-> clave, rfc |-> rfc,
         periodo |-> PeriodoBd(PeriodoOf(doc)), nombre_archivo |-> nombre,
         ruta_archivo |-> save_pdf_and_get_path(s3, rfc, clave, nombre),
         fecha_subida |-> now]

\* the ledger after two uploads: a receipt of one employee, two of another
WebRecibos(s3) ==
    << RowOf(s3, "11", RfcAb1, DocA, 1),
       RowOf(s3, "20", RfcCd2, DocA, 1),
       RowOf(s3, "20", RfcCd2, DocB, 2) >>

\* the store after the artifact of the third receipt was lost
WebStorage(s3) ==
    { SaveAddr(s3, RfcAb1, "11", NombreArchivo(RfcAb1, PeriodoOf(DocA))),
      SaveAddr(s3, RfcCd2, "20", NombreArchivo(RfcCd2, PeriodoOf(DocA))) }

\* the rfc of the employee as the spreadsheet had it
EmpRfcs == {RfcCd2, <<"c", "d", "2">>}

\* the accounts before the employee registers, the ledger already filled
InitWeb ==
    /\ use_s3 \in BOOLEAN
    /\ \E r \in EmpRfcs :
          /\ usuarios = << [rfc |-> <<"A", "B", " ", "1">>, clave |-> "11"],
                           [rfc |-> r, clave |-> "20"],
                           [rfc |-> RfcAdmin, clave |-> "9999"] >>
          /\ cuentas = [admin |-> AdminCuenta, emp |-> Unregistered(r, "20")]
    /\ recibos = WebRecibos(use_s3)
    /\ storage = WebStorage(use_s3)
    /\ call = [p \in Procs |-> Idle]
    /\ nruns = 0
    /\ last = NoLast
    /\ clock = 0
    /\ wire = {}
    /\ resp = NoResp
    /\ reset_log = NoLog
    /\ norm = NoNorm

\* what clients send
Claves == {"20", "9999"}
RfcPatterns == {<<"c", "d", "2">>, <<"%">>, RfcXy9}
Passwords == {"p1", "p2"}
LoginEmails == {EmpEmail, "nadie@zapata.gob.mx"}
Presented == wire \cup {Garbage}

\* .first() of the rows with that clave whose rfc matches the pattern
FindByClaveRfc(cs, clave, pattern) ==
    LET found == {a \in Accounts : cs[a].clave = clave /\ ILike(cs[a].rfc, pattern)}
    IN  IF found = {} THEN "" ELSE CHOOSE a \in found : TRUE

\* the unique constraint on usuarios.email
EmailTaken(cs, a, email) == \E b \in Accounts \ {a} : cs[b].email = email

\* register: claim the row with that clave and rfc, set email and password,
\* is_verified = 0, and return an access token
register(clave, pattern, email, password) ==
    LET a == FindByClaveRfc(cuentas, clave, pattern) IN
    /\ IF a = "" THEN
            /\ resp' = Resp("register", 404, "")
            /\ UNCHANGED <<cuentas, wire>>
       ELSE IF cuentas[a].email # "" THEN
            /\ resp' = Resp("register", 400, a)
            /\ UNCHANGED <<cuentas, wire>>
       ELSE IF EmailTaken(cuentas, a, email) THEN
            /\ resp' = Resp("register", 500, a)
            /\ UNCHANGED <<cuentas, wire>>
       ELSE
            LET token == create_access_token(email, cuentas[a].rol, clock) IN
            /\ cuentas' = [cuentas EXCEPT ![a].email = email,
                              ![a].password_hash = hash_password(password),
                              ![a].is_verified = 0]
            /\ wire' = wire \cup {token}
            /\ resp' = [Resp("register", 201, a) EXCEPT !.tok = token]
    /\ UNCHANGED <<clock, reset_log>>
    /\ UNCHANGED <<ingvars, norm>>

\* login: 401 for an unknown email, an unverified account or a wrong password
login(email, password) ==
    LET a == ByEmail(cuentas, email) IN
    /\ IF a = "" THEN
            /\ resp' = Resp("login", 401, "")
            /\ wire' = wire
       ELSE IF cuentas[a].is_verified = 0 THEN
            /\ resp' = Resp("login", 401, a)
            /\ wire' = wire
       ELSE IF ~verify(password, cuentas[a].password_hash) THEN
            /\ resp' = Resp("login", 401, a)
            /\ wire' = wire
       ELSE
            LET token == create_access_token(email, cuentas[a].rol, clock) IN
            /\ wire' = wire \cup {token}
            /\ resp' = [Resp("login", 200, a) EXCEPT !.tok = token]
    /\ UNCHANGED <<cuentas, clock, reset_log>>
    /\ UNCHANGED <<ingvars, norm>>

\* verificar_email: the account the token names becomes verified
verificar_email(tok) ==
    LET a == ByEmail(cuentas, tok.sub) IN
    /\ IF Decode(tok, clock) # "ok" THEN
            /\ resp' = [Resp("verificar_email", 400, "") EXCEPT !.tok = tok]
            /\ cuentas' = cuentas
       ELSE IF a = "" THEN
            /\ resp' = [Resp("verificar_email", 404, "") EXCEPT !.tok = tok]
            /\ cuentas' = cuentas
       ELSE
            /\ cuentas' = [cuentas EXCEPT ![a].is_verified = 1]
            /\ resp' = [Resp("verificar_email", 200, a) EXCEPT !.tok = tok]
    /\ UNCHANGED <<clock, wire, reset_log>>
    /\ UNCHANGED <<ingvars, norm>>

\* reenviar_verificacion: mails a fresh token to an unverified account
reenviar_verificacion(email, sent) ==
    LET a == ByEmail(cuentas, email) IN
    /\ IF a = "" THEN
            /\ resp' = Resp("reenviar_verificacion", 404, "")
            /\ wire' = wire
       ELSE IF cuentas[a].is_verified # 0 THEN
            /\ resp' = Resp("reenviar_verificacion", 200, a)
            /\ wire' = wire
       ELSE
            LET token == create_access_token(email, cuentas[a].rol, clock) IN
            /\ wire' = IF sent THEN wire \cup {token} ELSE wire
            /\ resp' = Resp("reenviar_verificacion", 200, a)
    /\ UNCHANGED <<cuentas, clock, reset_log>>
    /\ UNCHANGED <<ingvars, norm>>

\* solicitar_reset: stores a fresh token as reset_token and mails it
solicitar_reset(email, sent) ==
    LET a == ByEmail(cuentas, email) IN
    /\ IF a = "" THEN
            /\ resp' = Resp("solicitar_reset", 404, "")
            /\ UNCHANGED <<cuentas, wire, reset_log>>
       ELSE
            LET token == create_access_token(email, cuentas[a].rol, clock) IN
            /\ cuentas' = [cuentas EXCEPT ![a].reset_token = token]
            /\ wire' = IF sent THEN wire \cup {token} ELSE wire
            /\ reset_log' = [reset_log EXCEPT ![a] = [tok |-> token, spent |-> FALSE]]
            /\ resp' = Resp("solicitar_reset", 200, a)
    /\ UNCHANGED clock
    /\ UNCHANGED <<ingvars, norm>>

AfterReset_Kept(token) == token

\* user.reset_token = None
AfterReset(token) == NoToken

\* reset_password: the token must decode and be the account's reset_token
reset_password(tok, nueva_password) ==
    LET a == ByEmail(cuentas, tok.sub) IN
    /\ IF tok = NoToken \/ nueva_password = "" THEN
            /\ resp' = [Resp("reset_password", 400, "") EXCEPT !.tok = tok]
            /\ UNCHANGED <<cuentas, reset_log>>
       ELSE IF Decode(tok, clock) # "ok" THEN
            /\ resp' = [Resp("reset_password", 400, "") EXCEPT !.tok = tok]
            /\ UNCHANGED <<cuentas, reset_log>>
       ELSE IF a = "" THEN
            /\ resp' = [Resp("reset_password", 400, "") EXCEPT !.tok = tok]
            /\ UNCHANGED <<cuentas, reset_log>>
       ELSE IF cuentas[a].reset_token # tok THEN
            /\ resp' = [Resp("reset_password", 400, a) EXCEPT !.tok = tok]
            /\ UNCHANGED <<cuentas, reset_log>>
       ELSE
            /\ cuentas' = [cuentas EXCEPT
                              ![a].password_hash = hash_password(nueva_password),
                              ![a].reset_token = AfterReset(tok)]
            /\ reset_log' = [reset_log EXCEPT ![a].spent = TRUE]
            /\ resp' = [Resp("reset_password", 200, a) EXCEPT !.tok = tok]
    /\ UNCHANGED <<clock, wire>>
    /\ UNCHANGED <<ingvars, norm>>

\* GET /recibos/: the rows of the authenticated user
get_recibos(tok) ==
    LET who == get_current_user(cuentas, tok, clock) IN
    /\ IF who = "" THEN resp' = [Resp("list_recibos", 401, "") EXCEPT !.tok = tok]
       ELSE resp' = [Resp("list_recibos", 200, who) EXCEPT
                        !.tok = tok,
                        !.rows = list_recibos(recibos, cuentas[who].rfc)]
    /\ UNCHANGED <<cuentas, clock, wire, reset_log>>
    /\ UNCHANGED <<ingvars, norm>>

SameOwner_Anyone(row_rfc, user_rfc) == TRUE

\* row.rfc.upper() == current_user.rfc.upper()
SameOwner(row_rfc, user_rfc) == Upper(row_rfc) = Upper(user_rfc)

\* the status download_recibo answers once the owner check passed
Serve(row, head, signed) ==
    IF row.ruta_archivo # <<>> /\ row.ruta_archivo[1] = "s3://" THEN
        IF ~use_s3 THEN 500
        ELSE IF head = "False" THEN 404
        ELSE IF head = "ClientError" THEN 500
        ELSE IF ~signed THEN 500
        ELSE 307
    ELSE IF row.ruta_archivo \in storage THEN 200 ELSE 404

\* download_recibo: 404 unknown id, 403 not the owner, else the file or a
\* redirect to a signed URL
download_recibo(tok, id) ==
    LET who == get_current_user(cuentas, tok, clock) IN
    /\ IF who = "" THEN
            resp' = [Resp("download_recibo", 401, "") EXCEPT !.tok = tok, !.id = id]
       ELSE IF id \notin 1..Len(recibos) THEN
            resp' = [Resp("download_recibo", 404, who) EXCEPT !.tok = tok, !.id = id]
       ELSE IF ~SameOwner(recibos[id].rfc, cuentas[who].rfc) THEN
            resp' = [Resp("download_recibo", 403, who) EXCEPT !.tok = tok, !.id = id]
       ELSE
            \E head \in HeadAnswers(storage, LocatorAddr(recibos[id])),
               signed \in BOOLEAN :
                resp' = [Resp("download_recibo", Serve(recibos[id], head, signed), who)
                            EXCEPT !.tok = tok, !.id = id]
    /\ UNCHANGED <<cuentas, clock, wire, reset_log>>
    /\ UNCHANGED <<ingvars, norm>>

\* time passes
Tick ==
    /\ clock < MaxClock
    /\ clock' = clock + 1
    /\ UNCHANGED <<cuentas, wire, resp, reset_log>>
    /\ UNCHANGED <<ingvars, norm>>

NextWeb ==
    \/ \E clave \in Claves, pattern \in RfcPatterns, email \in {EmpEmail, AdminEmail} :
          register(clave, pattern, email, "p1")
    \/ \E email \in LoginEmails, password \in Passwords : login(email, password)
    \/ \E tok \in Presented : verificar_email(tok)
    \/ \E email \in LoginEmails, sent \in BOOLEAN : reenviar_verificacion(email, sent)
    \/ \E email \in LoginEmails, sent \in BOOLEAN : solicitar_reset(email, sent)
    \/ \E tok \in Presented \cup {NoToken}, nueva \in {"p2", ""} :
          reset_password(tok, nueva)
    \/ \E tok \in Presented : get_recibos(tok)
    \/ \E tok \in Presented, id \in 1..(Len(recibos) + 1) : download_recibo(tok, id)
    \/ Tick

SpecWeb == InitWeb /\ [][NextWeb]_vars


(* ------------------------------ properties ---------------------------- *)
\* no two recibos rows carry the same dedup key
UniqueKeys(rows) ==
    \A i, j \in 1..Len(rows) : KeyOf(rows[i]) = KeyOf(rows[j]) => i = j

\* the documents of a finished call that reached the reconciler
Ingested(c) == {i \in 1..Len(c.outs) : c.outs[i] \in {"NUEVO", "YA_EXISTE", "REPARADO"}}

\* this step of the behaviour is worker p finishing the document it is at
Processed(p) == AtFile(call[p]) /\ call'[p].idx = call[p].idx + 1

\* C1: after any sequence of procesar_zip calls run one after the other,
\* starting from an empty recibos table, the table holds at most one row per
\* tuple (clave_empleado, rfc, periodo, nombre_archivo).
C1_UniqueSequential == UniqueKeys(recibos)

\* a second call has met the row a first call inserted
C1_Witness ==
    /\ nruns = 2
    /\ Len(recibos) >= 1
    /\ \E p \in Procs : call[p].pc = "done" /\ call[p].stats.ya_existian >= 1

\* C2: when two procesar_zip calls run concurrently and each handles a
\* document of the same dedup key, at most one row for that key exists
\* afterwards, in every interleaving.
C2_UniqueConcurrent ==
    (\A p \in Procs : call[p].pc \in {"idle", "done", "fatal"}) => UniqueKeys(recibos)

\* C3: ingesting the same archive again, right after a call that returned,
\* with the stored artifacts and the directory untouched, creates nothing
\* and finds every ingested document already present.
C3_ReplayAllPresent ==
    \A p \in Procs :
        (call[p].pc = "done" /\ call[p].replay /\ call[p].quiet) =>
            /\ call[p].stats.nuevos = 0
            /\ \A i \in Ingested(call[p]) : call[p].outs[i] = "YA_EXISTE"

\* C4: a document whose row exists and whose artifact is gone is never taken
\* as present; its re-persist puts the artifact back; and counting it adds
\* one to reparados and nothing else, inserts no row and changes no key.
C4_Repair ==
    [][\A p \in Procs :
        LET c == call[p]
            cu == c.cur
        IN  /\ ( /\ c.pc = "head"
                 /\ call'[p].pc # "head"
                 /\ CheckAddr(use_s3, recibos[cu.existe], cu.rfc_guardar,
                              cu.clave_emp, cu.nombre_archivo) \notin storage )
               => call'[p].pc = "save_rep"
            /\ (c.pc = "save_rep" /\ call'[p].pc = "commit_rep")
               => CheckAddr(use_s3, recibos[cu.existe], cu.rfc_guardar,
                            cu.clave_emp, cu.nombre_archivo) \in storage'
            /\ (c.pc = "commit_rep" /\ call'[p].pc = "loop")
               => /\ call'[p].stats = [c.stats EXCEPT !.reparados = @ + 1]
                  /\ call'[p].outs = Append(c.outs, "REPARADO")
                  /\ Len(recibos') = Len(recibos)
                  /\ \A i \in 1..Len(recibos) : KeyOf(recibos'[i]) = KeyOf(recibos[i])
      ]_vars

\* the archive of one document was ingested, its file removed from the
\* local store, and the archive ingested again: one repair, one row, file back
C4_Witness ==
    /\ ~use_s3
    /\ nruns = 2
    /\ Len(recibos) = 1
    /\ recibos[1].ruta_archivo \in storage
    /\ \E p \in Procs :
          /\ call[p].pc = "done"
          /\ call[p].blob = Zip(<<DocA>>)
          /\ call[p].stats.reparados = 1
          /\ call[p].stats.nuevos = 0

\* C5: an existence check answered with an error other than not-found
\* propagates as a fault; the document is not re-persisted nor repaired.
C5_HeadErrorIsFault ==
    \A p \in Procs :
        call[p].cur.head = "ClientError" => call[p].pc \notin {"save_rep", "commit_rep"}

\* C6: a fault while processing one document does not abort the batch; only
\* an invalid archive or a ledger-store fault ends the call with an error.
C6_DocumentFaultsContained ==
    \A p \in Procs :
        call[p].pc = "fatal" => call[p].fault \in {"BadZipFile", "ledger"}

\* C7: an archive that is not a well-formed container fails the call before
\* any file is iterated: no counter, no row, no artifact.
C7_BadArchive ==
    [][\A p \in Procs :
        (call[p].pc = "extract" /\ ~call[p].blob.valid /\ call'[p].pc # "extract")
        => /\ call'[p].pc = "fatal"
           /\ call'[p].fault = "BadZipFile"
           /\ call'[p].stats = ZeroStats
           /\ call'[p].outs = <<>>
           /\ call'[p].idx = 0
           /\ recibos' = recibos
           /\ storage' = storage
      ]_vars

C7_Witness ==
    \E p \in Procs : call[p].pc = "fatal" /\ call[p].fault = "BadZipFile"

\* C8: a call ends with a complete result or with one fatal error, and a
\* fatal error leaves nothing of the batch committed.
C8_NoPartialCommit ==
    \A p \in Procs :
        call[p].pc = "fatal" =>
            call[p].stats.nuevos = 0 /\ call[p].stats.reparados = 0

\* C9 as stated: a document all of whose candidates are absent from the
\* snapshot adds one to sin_usuario and writes no row and no artifact.
C9_AsStated ==
    [][\A p \in Procs :
        LET c == call[p]
            cands == RfcsNormOf(CurFile(c))
        IN  ( /\ Processed(p)
              /\ IsPdf(CurFile(c))
              /\ cands # <<>>
              /\ \A i \in 1..Len(cands) : cands[i] \notin DOMAIN c.user_map )
            => /\ call'[p].stats.sin_usuario = c.stats.sin_usuario + 1
               /\ recibos' = recibos
               /\ storage' = storage
      ]_vars

\* C9 amended: a document with an extracted period and at least one
\* candidate, all candidates absent from the snapshot, adds one to
\* sin_usuario and to total_pdfs only, and writes no row and no artifact.
C9_Unmatched ==
    [][\A p \in Procs :
        LET c == call[p]
            cands == RfcsNormOf(CurFile(c))
        IN  ( /\ Processed(p)
              /\ IsPdf(CurFile(c))
              /\ cands # <<>>
              /\ PeriodoOf(CurFile(c)) # None
              /\ \A i \in 1..Len(cands) : cands[i] \notin DOMAIN c.user_map )
            => /\ call'[p].stats = [c.stats EXCEPT !.sin_usuario = @ + 1,
                                                   !.total_pdfs = @ + 1]
               /\ recibos' = recibos
               /\ storage' = storage
      ]_vars

C9_Witness ==
    \E p \in Procs :
        /\ call[p].stats.sin_usuario = 1
        /\ \E i \in 1..Len(call[p].outs) : call[p].outs[i] = "SIN_USUARIO"

\* C10: once a call has ended, by return or by any error, its scratch area
\* and its session are gone.
C10_ScratchReleased ==
    \A p \in Procs :
        call[p].pc \in {"done", "fatal", "idle"} => ~call[p].tmpdir /\ ~call[p].db

\* a call that failed on a document after processing an earlier one
C10_Witness ==
    \E p \in Procs :
        /\ call[p].pc = "fatal"
        /\ call[p].fault = "upload"
        /\ call[p].stats.total_pdfs >= 2


\* the strings scenario A expects for a January receipt
EnePeriodo ==
    <<"01", "-", "ene", "-", "2025", " al ", "15", "-", "ene", "-", "2025">>
EneNombre(rfc) ==
    rfc \o <<"_", "01", "-", "ene", "-", "2025", "_al_",
             "15", "-", "ene", "-", "2025", ".pdf">>

\* the rows of January receipts, however the month was written
EneRows ==
    {i \in 1..Len(recibos) :
        InSeq("ene", recibos[i].periodo) \/ InSeq("ene.", recibos[i].periodo)}

\* C11: a document reading "Periodo del: 01-ene.-2025 al 15-ene.-2025" (or
\* the same with "/") is recorded with period "01-ene-2025 al 15-ene-2025"
\* and file name "<rfc>_01-ene-2025_al_15-ene-2025.pdf": separators unified
\* and the dot after the month abbreviation stripped.
C11_PeriodCanonical ==
    \A i \in EneRows :
        /\ recibos[i].periodo = EnePeriodo
        /\ recibos[i].nombre_archivo = EneNombre(recibos[i].rfc)


\* this step of the behaviour is worker p taking up the file it is at
Handled(p) ==
    /\ AtFile(call[p])
    /\ (call'[p].pc # "loop" \/ call'[p].idx # call[p].idx)

\* the file ends as omitted: counted there and nowhere else, nothing written
EndsOmitido(p) ==
    /\ call'[p].pc = "loop"
    /\ call'[p].outs = Append(call[p].outs, "OMITIDO")
    /\ call'[p].stats = [call[p].stats EXCEPT !.omitidos = @ + 1,
                                              !.total_pdfs = @ + 1]
    /\ recibos' = recibos
    /\ storage' = storage

\* no text to extract: the PDF does not open, or its pages give blank text
NoText(doc) == ~doc.opens \/ ~doc.hasText

\* C12 as stated: a document with no extractable text, or whose text lacks
\* a period phrase or lacks any identifier token, is counted in omitidos
\* only and nothing is written, whatever its file name holds.
C12_AsStated ==
    [][\A p \in Procs :
        LET doc == CurFile(call[p])
        IN  ( /\ Handled(p)
              /\ IsPdf(doc)
              /\ (NoText(doc) \/ doc.txt_per = None \/ doc.txt_rfcs = <<>>) )
            => EndsOmitido(p)
      ]_vars

\* C12 amended: a document with no extractable text, or whose text lacks a
\* period phrase, or with no identifier token in its text nor in its file
\* name, is counted in omitidos only and nothing is written.
C12_Unparsable ==
    [][\A p \in Procs :
        LET doc == CurFile(call[p])
        IN  ( /\ Handled(p)
              /\ IsPdf(doc)
              /\ \/ NoText(doc)
                 \/ doc.txt_per = None
                 \/ (doc.txt_rfcs = <<>> /\ doc.name_rfcs = <<>>) )
            => EndsOmitido(p)
      ]_vars

\* a scan whose file name holds an RFC of the directory was omitted
C12_Witness ==
    \E p \in Procs :
        \E k \in 1..Len(call[p].outs) :
            /\ call[p].outs[k] = "OMITIDO"
            /\ Files(call[p].blob)[k] = DocScan
            /\ normalize_rfc(DocScan.name_rfcs[1]) \in DOMAIN call[p].user_map


\* the dedup keys held by the ledger
KeySet(rows) == {KeyOf(rows[i]) : i \in 1..Len(rows)}

\* the address the existence check of the call's current document looks at
CurAddr(c) ==
    CheckAddr(use_s3, recibos[c.cur.existe], c.cur.rfc_guardar,
              c.cur.clave_emp, c.cur.nombre_archivo)

\* C13: a run that repeats the archive of the completed run before it, with
\* ledger, directory and store left alone in between and meanwhile, inserts
\* no row, leaves the set of dedup keys as it was, and goes to write an
\* artifact only for a record whose artifact is missing.
C13_ReplayConverges ==
    [][\A p \in Procs :
        (call[p].replay /\ call'[p].quiet) =>
            /\ Len(recibos') = Len(recibos)
            /\ KeySet(recibos') = KeySet(recibos)
            /\ (call[p].pc = "head" /\ call'[p].pc = "save_rep")
                  => CurAddr(call[p]) \notin storage
      ]_vars

\* C14: a document whose record is found either ends as already present,
\* counted in ya_existian with ledger and store exactly as they were, or goes
\* on to repair, and it goes on to repair only when the existence check did
\* not answer true; on the filesystem a file that is there always answers true.
C14_AlreadyPresent ==
    [][\A p \in Procs :
        LET c == call[p] IN
        (c.pc = "head" /\ call'[p].pc # "head") =>
            /\ call'[p].pc \in {"loop", "save_rep"}
            /\ recibos' = recibos
            /\ storage' = storage
            /\ call'[p].pc = "loop" =>
                  /\ call'[p].outs = Append(c.outs, "YA_EXISTE")
                  /\ call'[p].stats = [c.stats EXCEPT !.ya_existian = @ + 1]
            /\ call'[p].pc = "save_rep" =>
                  IF use_s3 THEN call'[p].cur.head \in {"False", "ClientError"}
                  ELSE CurAddr(c) \notin storage
            /\ (~use_s3 /\ CurAddr(c) \in storage) => call'[p].pc = "loop"
      ]_vars

\* a call found the record and its artifact, on each backend
C14_Witness ==
    \E p \in Procs :
        /\ call[p].pc = "done"
        /\ call[p].stats.ya_existian = 1
        /\ call[p].outs = <<"SKIP", "YA_EXISTE">>
        /\ Len(recibos) = 1
        /\ recibos[1].ruta_archivo \in storage

\* the fields of a record that no ingestion may change
Fixed(row) ==
    <<row.clave_empleado, row.rfc, row.periodo, row.nombre_archivo,
      row.fecha_subida>>

\* C15: no step deletes a record or moves one, and every record keeps its
\* clave_empleado, rfc, periodo, nombre_archivo and fecha_subida; ruta_archivo
\* changes only in the commit of a repair.
C15_OnlyLocatorReplaced ==
    [][/\ Len(recibos') >= Len(recibos)
       /\ \A i \in 1..Len(recibos) :
            /\ Fixed(recibos'[i]) = Fixed(recibos[i])
            /\ recibos'[i] # recibos[i] =>
                  \E p \in Procs : /\ call[p].pc = "commit_rep"
                                   /\ call'[p].pc = "loop"
                                   /\ call[p].cur.existe = i
      ]_vars

\* a repair was committed on a record of an earlier run
C15_Witness ==
    \E p \in Procs :
        /\ InSeq("REPARADO", call[p].outs)
        /\ \E i \in 1..Len(recibos) : recibos[i].fecha_subida < nruns


\* how many entries so far ended with the given outcome
Tally(outs, tag) == Cardinality({k \in 1..Len(outs) : outs[k] = tag})

C17_PersistBeforeInsert ==
    [][\A p \in Procs :
        LET c == call[p]
            cu == c.cur
        IN  /\ (call'[p].pc = "commit_new" /\ c.pc # "commit_new") =>
                  /\ c.pc = "save_new"
                  /\ SaveAddr(use_s3, cu.rfc_guardar, cu.clave_emp,
                              cu.nombre_archivo) \in storage'
                  /\ call'[p].cur.ruta =
                        save_pdf_and_get_path(use_s3, cu.rfc_guardar,
                                              cu.clave_emp, cu.nombre_archivo)
                  /\ recibos' = recibos
            /\ (c.pc = "save_new" /\ call'[p].pc # "save_new") =>
                  /\ recibos' = recibos
                  /\ call'[p].pc \in {"commit_new", "fatal"}
                  /\ call'[p].pc = "fatal" => Len(call'[p].outs) = Len(c.outs)
            /\ (c.pc = "commit_new" /\ call'[p].pc = "loop") =>
                  /\ Len(recibos') = Len(recibos) + 1
                  /\ cu.ruta # None
                  /\ recibos'[Len(recibos')].ruta_archivo = cu.ruta
            /\ Len(recibos') > Len(recibos) =>
                  \E q \in Procs : call[q].pc = "commit_new" /\ call'[q].pc = "loop"
      ]_vars

\* a new document was stored and then recorded with its locator
C17_Witness ==
    \E p \in Procs :
        /\ call[p].pc = "loop"
        /\ InSeq("NUEVO", call[p].outs)
        /\ recibos # <<>>
        /\ recibos[Len(recibos)].fecha_subida = nruns
        /\ recibos[Len(recibos)].ruta_archivo \in storage

\* the candidates in extraction order: the tokens of the text, then those of
\* the file name
Candidates(doc) == doc.txt_rfcs \o doc.name_rfcs

\* candidate k is the first whose normalized form is a key of the mapping
FirstKnown(cands, k, umap) ==
    /\ normalize_rfc(cands[k]) \in DOMAIN umap
    /\ \A j \in 1..(k - 1) : normalize_rfc(cands[j]) \notin DOMAIN umap

\* C18: a document that is not omitted resolves to the first candidate, in
\* extraction order, whose normalized form is a key of the mapping, and to
\* the key's employee; it ends as sin_usuario only when no candidate's
\* normalized form is a key.
C18_FirstCandidate ==
    [][\A p \in Procs :
        LET c == call[p]
            doc == CurFile(c)
            cands == Candidates(doc)
            known == {k \in 1..Len(cands) :
                         normalize_rfc(cands[k]) \in DOMAIN c.user_map}
        IN  ( /\ Handled(p)
              /\ IsPdf(doc)
              /\ call'[p].outs # Append(c.outs, "OMITIDO") ) =>
                /\ known # {} =>
                      /\ call'[p].pc \in {"head", "save_new"}
                      /\ \E k \in known :
                            /\ FirstKnown(cands, k, c.user_map)
                            /\ call'[p].cur.rfc_guardar = normalize_rfc(cands[k])
                            /\ call'[p].cur.clave_emp =
                                  c.user_map[normalize_rfc(cands[k])]
                /\ known = {} =>
                      /\ call'[p].pc = "loop"
                      /\ call'[p].outs = Append(c.outs, "SIN_USUARIO")
      ]_vars

\* a document whose first candidate is unknown and whose second and third
\* are both known was resolved to the second
C18_Witness ==
    \E p \in Procs :
        /\ call[p].pc \in {"head", "save_new"}
        /\ CurFile(call[p]) = DocA2
        /\ normalize_rfc(Candidates(DocA2)[1]) \notin DOMAIN call[p].user_map
        /\ normalize_rfc(Candidates(DocA2)[3]) \in DOMAIN call[p].user_map
        /\ call[p].cur.rfc_guardar = normalize_rfc(Candidates(DocA2)[2])

\* C19: a call's mapping is written once, by the read of usuarios that comes
\* before the first entry, and never again while the call runs; every
\* resolution uses that mapping, whatever usuarios holds by then; and no
\* step of a call changes usuarios.
C19_OneSnapshot ==
    [][\A p \in Procs :
        LET c == call[p] IN
        /\ (call'[p].user_map # c.user_map /\ call'[p].pc # "idle") =>
              /\ c.pc = "snapshot"
              /\ c.outs = <<>>
              /\ call'[p].user_map = BuildUserMap(usuarios)
        /\ (c.pc = "loop" /\ call'[p].pc \in {"head", "save_new"}) =>
              /\ call'[p].cur.rfc_guardar =
                    FirstMatch(RfcsNormOf(CurFile(c)), c.user_map)
              /\ call'[p].cur.clave_emp = c.user_map[call'[p].cur.rfc_guardar]
        /\ call'[p].outs = Append(c.outs, "SIN_USUARIO") =>
              FirstMatch(RfcsNormOf(CurFile(c)), c.user_map) = None
        /\ (call'[p].pc # c.pc \/ call'[p].idx # c.idx) => usuarios' = usuarios
      ]_vars

\* a document was resolved to the employee of the snapshot although
\* usuarios by now maps its RFC to another employee
C19_Witness ==
    \E p \in Procs :
        /\ call[p].pc \in {"head", "save_new"}
        /\ call[p].cur.rfc_guardar = RfcAb1
        /\ call[p].cur.clave_emp = "11"
        /\ call[p].user_map[RfcAb1] = "11"
        /\ BuildUserMap(usuarios)[RfcAb1] = "10"

\* C20: a document whose file name holds an identifier-shaped token and two
\* dates joined by "al" is never omitted, whether or not its text can be
\* extracted.
C20_FilenameFastPath ==
    \A p \in Procs :
        \A k \in 1..Len(call[p].outs) :
            LET doc == Files(call[p].blob)[k] IN
            (IsPdf(doc) /\ doc.name_rfcs # <<>> /\ doc.name_per # None)
                => call[p].outs[k] # "OMITIDO"


\* the object a record's locator addresses under the object backend
KeyOfRecord(row) ==
    row.rfc \o <<"/", row.clave_empleado, "/">> \o row.nombre_archivo

\* C21: under the object backend every record's locator is
\* "s3://<bucket>/<rfc>/<clave_empleado>/<nombre_archivo>" of that record,
\* and the key an existence check asks for is the key of the found record's
\* locator.
C21_LocatorAddressesKey ==
    use_s3 =>
        /\ \A i \in 1..Len(recibos) :
              recibos[i].ruta_archivo =
                  <<"s3://", Bucket, "/">> \o KeyOfRecord(recibos[i])
        /\ \A p \in Procs :
              call[p].pc = "head" =>
                  <<"s3://", Bucket, "/">> \o CurAddr(call[p]) =
                      recibos[call[p].cur.existe].ruta_archivo

\* under the object backend a record was created by one call and repaired
\* by the next
C21_Witness ==
    /\ use_s3
    /\ Len(recibos) = 1
    /\ recibos[1].fecha_subida < nruns
    /\ \E p \in Procs : InSeq("REPARADO", call[p].outs)

\* C22: every record's nombre_archivo is its rfc, "_", its periodo with
\* " al " written "_al_", and ".pdf"; so records of one rfc and periodo
\* have one nombre_archivo.
C22_CanonicalFilename ==
    /\ \A i \in 1..Len(recibos) :
          recibos[i].nombre_archivo =
              recibos[i].rfc \o <<"_">>
                  \o Replace(recibos[i].periodo, " al ", "_al_") \o <<".pdf">>
    /\ \A i, j \in 1..Len(recibos) :
          (recibos[i].rfc = recibos[j].rfc /\ recibos[i].periodo = recibos[j].periodo)
              => recibos[i].nombre_archivo = recibos[j].nombre_archivo

\* records of two employees and two periods are in the ledger
C22_Witness ==
    /\ Len(recibos) = 2
    /\ recibos[1].rfc # recibos[2].rfc
    /\ recibos[1].periodo # recibos[2].periodo

\* the entries of the archive that carry the document extension
PdfEntries(blob) ==
    {k \in 1..Len(blob.entries) : blob.entries[k].suffix \in {".pdf", ".PDF"}}

DocKey(c, k) ==
    LET doc == Files(c.blob)[k]
        rfc == FirstMatch(RfcsNormOf(doc), c.user_map)
        periodo == PeriodoOf(doc)
    IN  <<c.user_map[rfc], rfc, PeriodoBd(periodo), NombreArchivo(rfc, periodo)>>

\* C24: when a call has returned and nothing was deleted or changed out of
\* band meanwhile, every document it counted as new, existing or repaired
\* has exactly one record with its dedup key, and the artifact is in the
\* store at that record's locator.
C24_CountedIsRecorded ==
    \A p \in Procs :
        (call[p].pc = "done" /\ call[p].quiet) =>
            \A k \in Ingested(call[p]) :
                LET rows == {i \in 1..Len(recibos) :
                                KeyOf(recibos[i]) = DocKey(call[p], k)}
                IN  /\ Cardinality(rows) = 1
                    /\ \A i \in rows : LocatorAddr(recibos[i]) \in storage


\* C25: every record was resolved to a usuarios row with its clave, stores
\* the rfc of that row as the row stores it, and so is among the records
\* list_recibos gives that user.
C25_RecordBelongsToUser ==
    \A i \in 1..Len(recibos) :
        \E j \in 1..Len(usuarios) :
            /\ normalize_rfc(usuarios[j].rfc) = recibos[i].rfc
            /\ usuarios[j].clave = recibos[i].clave_empleado
            /\ usuarios[j].rfc = recibos[i].rfc
            /\ i \in list_recibos(recibos, usuarios[j].rfc)


\* the request of worker p is being served by procesar_zip
Ingesting(c) == c.pc \notin {"idle", "rejected"}

\* C29: procesar_zip is entered only for a request whose user has rol
\* "admin"; a request turned away leaves ledger and store as they were, and
\* a request of a known user who is not an administrator is turned away
\* with 403; every change ingestion makes to ledger or store is made by a
\* call entered for an administrator.
C29_AdminOnly ==
    [][\A p \in Procs :
        LET c == call[p]
            d == call'[p]
        IN  /\ (c.pc = "idle" /\ Ingesting(d)) =>
                  /\ d.user \in Accounts
                  /\ cuentas[d.user].rol = "admin"
            /\ (c.pc = "idle" /\ d.pc = "rejected") =>
                  /\ recibos' = recibos
                  /\ storage' = storage
                  /\ d.fault \in {"400", "401", "403"}
                  /\ (d.user \in Accounts /\ cuentas[d.user].rol # "admin")
                        => d.fault = "403"
            /\ (Ingesting(c) /\ d # c /\ d.quiet = c.quiet) =>
                  /\ c.user \in Accounts
                  /\ cuentas[c.user].rol = "admin"
            /\ (recibos' # recibos \/ ~(storage' \subseteq storage)) =>
                  \E q \in Procs : /\ Ingesting(call[q])
                                   /\ call[q].user \in Accounts
                                   /\ cuentas[call[q].user].rol = "admin"
      ]_vars

\* after an administrator's upload was recorded, the upload of an employee
\* was turned away with 403
C29_Witness ==
    /\ recibos # <<>>
    /\ \E p \in Procs :
          /\ call[p].pc = "rejected"
          /\ call[p].fault = "403"
          /\ call[p].user = "emp"


\* this step of the behaviour is a request to the route op being answered
Answered(op) ==
    /\ resp'.op = op
    /\ clock' = clock
    /\ (resp' # resp \/ cuentas' # cuentas \/ wire' # wire)

\* the token is the reset link last issued for account a, not used since
LiveResetToken(a, tok) ==
    /\ tok # NoToken
    /\ reset_log[a].tok = tok
    /\ ~reset_log[a].spent

\* C26: reset_password answers 200 and sets the password only for the token
\* solicitar_reset issued last for the account and that no reset has used;
\* for any other token, one already used or replaced by a newer one
\* included, it answers 400 and changes no account; and the password of a
\* registered account changes in no other request.
C26_ResetTokenOnce ==
    [][/\ Answered("reset_password") =>
            /\ resp'.status \in {200, 400}
            /\ resp'.status = 200 =>
                  \E a \in Accounts :
                      /\ resp'.user = a
                      /\ LiveResetToken(a, resp'.tok)
                      /\ cuentas[a].email = resp'.tok.sub
                      /\ \A b \in Accounts \ {a} : cuentas'[b] = cuentas[b]
            /\ resp'.status = 400 => cuentas' = cuentas
            /\ (\A a \in Accounts : ~LiveResetToken(a, resp'.tok))
                  => resp'.status = 400
       /\ \A a \in Accounts :
            (cuentas[a].email # "" /\
             cuentas'[a].password_hash # cuentas[a].password_hash)
                => (resp'.op = "reset_password" /\ resp'.status = 200 /\ resp'.user = a)
      ]_vars

\* a reset link that still decodes was presented again after it had been
\* used, and was refused
C26_Witness ==
    /\ resp.op = "reset_password"
    /\ resp.status = 400
    /\ resp.tok \in wire
    /\ Decode(resp.tok, clock) = "ok"
    /\ \E a \in Accounts :
          /\ reset_log[a].tok = resp.tok
          /\ reset_log[a].spent
          /\ cuentas[a].password_hash = hash_password("p2")

\* C27: list_recibos and download_recibo accept a token only of an account
\* whose is_verified is 1.
C27_UnverifiedCannotAuthenticate ==
    (resp.op \in {"list_recibos", "download_recibo"} /\ resp.user \in Accounts)
        => cuentas[resp.user].is_verified = 1

\* C28: download_recibo answers with the file or the signed redirect only
\* to a user whose rfc equals the record's rfc ignoring case, and answers
\* 403 to any other authenticated user asking for an existing record;
\* list_recibos gives exactly the records whose rfc is the user's rfc.
C28_OwnerOnly ==
    /\ (resp.op = "download_recibo" /\ resp.status \in {200, 307}) =>
          /\ resp.user \in Accounts
          /\ resp.id \in 1..Len(recibos)
          /\ Upper(recibos[resp.id].rfc) = Upper(cuentas[resp.user].rfc)
    /\ ( /\ resp.op = "download_recibo"
         /\ resp.user \in Accounts
         /\ resp.id \in 1..Len(recibos)
         /\ Upper(recibos[resp.id].rfc) # Upper(cuentas[resp.user].rfc) )
          => resp.status = 403
    /\ (resp.op = "list_recibos" /\ resp.status = 200) =>
          /\ resp.user \in Accounts
          /\ resp.rows = {i \in 1..Len(recibos) :
                             recibos[i].rfc = cuentas[resp.user].rfc}
    /\ (resp.op = "list_recibos" /\ resp.status # 200) => resp.rows = {}

\* a receipt was served to a user whose rfc is the record's in another
\* letter case, after another employee's receipt was possible to ask for
C28_Witness ==
    /\ resp.op = "download_recibo"
    /\ resp.status \in {200, 307}
    /\ recibos[resp.id].rfc # cuentas[resp.user].rfc
    /\ \E i \in 1..Len(recibos) :
          Upper(recibos[i].rfc) # Upper(cuentas[resp.user].rfc)


\* ---------------------------------------------------------------------
\* normalize_rfc on its own
\* ---------------------------------------------------------------------

\* spellings of an RFC: strings of at most MaxLen of these characters, and the
\* spellings the documents and the usuarios rows use
MaxLen == 2
NormChars == {"a", "A", "ñ", "1", "-", "&"}
Spellings == {RfcAb1, RfcAb1Lower, <<"A", "B", " ", "1">>, <<"a", "b", "-", "1">>}
RfcInputs == UNION {[1..n -> NormChars] : n \in 0..MaxLen} \cup Spellings

InitNorm ==
    /\ use_s3 \in BOOLEAN
    /\ usuarios = InitialUsuarios
    /\ recibos = <<>>
    /\ storage = {}
    /\ call = [p \in Procs |-> Idle]
    /\ nruns = 0
    /\ last = NoLast
    /\ cuentas = [admin |-> AdminCuenta, emp |-> Registered(RfcCd2, "20")]
    /\ clock = 0
    /\ wire = {}
    /\ resp = NoResp
    /\ reset_log = NoLog
    /\ norm \in {[NoNorm EXCEPT !.pc = "arg", !.arg = s] : s \in RfcInputs}

\* rfc_norm = normalize_rfc(rfc)
Normalize ==
    /\ norm.pc = "arg"
    /\ norm' = [norm EXCEPT !.pc = "out", !.out = normalize_rfc(norm.arg)]
    /\ UNCHANGED <<ingvars, webvars>>

\* the stored value goes through normalize_rfc once more
NormalizeAgain ==
    /\ norm.pc = "out"
    /\ norm' = [norm EXCEPT !.pc = "again", !.again = normalize_rfc(norm.out)]
    /\ UNCHANGED <<ingvars, webvars>>

\* the employee number the candidate resolves to in user_map, "" if none
ClaveOf(rfcs_raw, rows) ==
    LET user_map == BuildUserMap(rows)
        rfc_norm_match == FirstMatch(RfcsNorm(rfcs_raw), user_map)
    IN  IF rfc_norm_match = None THEN "" ELSE user_map[rfc_norm_match]

\* clave_emp = user_map[rfc_norm_match]
Resolve ==
    /\ norm.pc = "again"
    /\ norm' = [norm EXCEPT !.pc = "found", !.clave = ClaveOf(<<norm.arg>>, usuarios)]
    /\ UNCHANGED <<ingvars, webvars>>

NextNorm == Normalize \/ NormalizeAgain \/ Resolve

SpecNorm == InitNorm /\ [][NextNorm]_vars

\* the identifier alphabet in capitals: letters, digits, Ñ and &
Capitals == {"A", "B", "C", "D", "X", "Y", "Ñ", "0", "1", "2", "9", "&"}

RECURSIVE Letters(_)
\* the characters of s that belong to the alphabet in either letter case,
\* written in capitals
Letters(s) ==
    IF s = <<>> THEN <<>>
    ELSE IF UpperChar(s[1]) \in Capitals
         THEN <<UpperChar(s[1])>> \o Letters(Tail(s))
         ELSE Letters(Tail(s))

\* C30: normalize_rfc gives the characters of the alphabet in capitals and
\* drops every other character; applying it twice is applying it once; two
\* strings with the same alphabet characters up to letter case normalize
\* alike and resolve to the same employee.
C30_NormalizeRfc ==
    /\ norm.pc \in {"out", "again", "found"} =>
          /\ norm.out = Letters(norm.arg)
          /\ \A i \in 1..Len(norm.out) : norm.out[i] \in Capitals
          /\ \A t \in RfcInputs :
                Letters(t) = Letters(norm.arg) => normalize_rfc(t) = norm.out
    /\ norm.pc \in {"again", "found"} => norm.again = norm.out
    /\ norm.pc = "found" =>
          \A t \in RfcInputs :
              Letters(t) = Letters(norm.arg) =>
                  ClaveOf(<<t>>, usuarios) = norm.clave

\* the spelling in small letters resolved to the employee whose usuarios row
\* spells the RFC with a space
C30_Witness ==
    /\ norm.pc = "found"
    /\ norm.arg = RfcAb1Lower
    /\ norm.out = RfcAb1
    /\ norm.again = RfcAb1
    /\ \E j \in 1..Len(usuarios) :
          usuarios[j].rfc = <<"A", "B", " ", "1">> /\ usuarios[j].clave = norm.clave

=============================================================================
